---------------------------- MODULE Spec2Model ----------------------------
(***************************************************************************)
(* A model of gotodocumentation.py: the "goto documentation" command of a  *)
(* Sublime Text plugin.  The command looks at the word under every cursor, *)
(* derives a dispatch tag from the syntax scope at that word, and calls    *)
(* the <tag>_doc handler, which opens a URL or (python) runs pydoc in a    *)
(* CommandThread whose result is posted back to the UI thread and shown in *)
(* an output panel.                                                        *)
(*                                                                         *)
(* Strings the code takes apart (scope names, keywords, process output)    *)
(* are sequences of one-character strings.  A string literal of the code   *)
(* that is only ever concatenated (a URL prefix, a message prefix) is one  *)
(* element of such a sequence.                                             *)
(***************************************************************************)
EXTENDS Integers, Sequences, FiniteSets, TLC

VARIABLES
    ui_pc,                  \* "idle", or "run" while the UI thread is inside GotoDocumentationCommand.run
    region,                 \* the region the loop of run is at: what the view answers for it
    last,                   \* the region run processed last, with its tag, handler and effects
    status,                 \* the status bar message (sublime.status_message)
    browser,                \* the URL the browser was last sent to (open_url)
    threads,                \* the CommandThread objects, in start order
    timeouts,               \* the callbacks queued with sublime.set_timeout
    output_view,            \* self.output_view: 0 while the attribute is unset, else a panel handle
    window_panel,           \* the window's output panel "gotodocumentation"
    get_output_panel_calls, \* how often get_output_panel was called
    ui_log,                 \* the UI mutations made so far, each with the thread that made it
    last_output             \* the output argument of the latest panel() call

vars == <<ui_pc, region, last, status, browser, threads, timeouts, output_view,
          window_panel, get_output_panel_calls, ui_log, last_output>>

(***************************************************************************)
(* Bounds of the model.                                                    *)
(***************************************************************************)
\* the longest word under the cursor, in characters
MaxKwLen == 2
\* the most dotted components in front of the trailing one of a scope name
MaxLead == 2
\* the most CommandThreads started in one behaviour
MaxThreads == 2

(***************************************************************************)
(* Strings.                                                                *)
(***************************************************************************)
\* what Python's str.strip() and the regular expression \s take for whitespace
Whitespace == {" ", "\t", "\n", "\r", "\f"}

\* all sequences over S of length at most n
RECURSIVE SeqsUpTo(_, _)
SeqsUpTo(S, n) ==
    IF n = 0 THEN {<<>>}
    ELSE LET shorter == SeqsUpTo(S, n - 1)
         IN  shorter \cup {Append(s, c) : s \in {t \in shorter : Len(t) = n - 1}, c \in S}

\* s.lstrip()
RECURSIVE lstrip(_)
lstrip(s) ==
    IF s # <<>> /\ Head(s) \in Whitespace THEN lstrip(Tail(s)) ELSE s

\* s.rstrip()
RECURSIVE rstrip(_)
rstrip(s) ==
    IF s # <<>> /\ s[Len(s)] \in Whitespace THEN rstrip(SubSeq(s, 1, Len(s) - 1)) ELSE s

\* s.strip()
strip(s) == rstrip(lstrip(s))

\* the positions of the character c in s
Positions(s, c) == {i \in 1..Len(s) : s[i] = c}

\* the largest member of a non-empty set of numbers
Max(S) == CHOOSE m \in S : \A x \in S : x <= m

\* a variant that splits at the first sep, as s.partition(sep)[2] does
partition2(s, sep) ==
    IF Positions(s, sep) = {} THEN s
    ELSE SubSeq(s, (CHOOSE m \in Positions(s, sep) : \A x \in Positions(s, sep) : m <= x) + 1, Len(s))

\* s.rpartition(sep)[2] for a one-character sep: the text after the last sep, all
\* of s when s holds no sep
rpartition2(s, sep) ==
    IF Positions(s, sep) = {} THEN s
    ELSE SubSeq(s, Max(Positions(s, sep)) + 1, Len(s))

\* sub in s
Contains(sub, s) ==
    \E i \in 0..(Len(s) - Len(sub)) : SubSeq(s, i + 1, i + Len(sub)) = sub

\* c.lower() for the characters of the keyword alphabet
LowerChar(c) == CASE c = "S" -> "s" [] c = "O" -> "o" [] OTHER -> c

\* s.lower()
lower(s) == [i \in 1..Len(s) |-> LowerChar(s[i])]

\* a.b for dotted names
Dot(a, b) == a \o <<".">> \o b

(***************************************************************************)
(* The words scope names are made of.                                      *)
(***************************************************************************)
w_source     == <<"s","o","u","r","c","e">>
w_resource   == <<"r","e">> \o w_source
w_pde        == <<"p","d","e">>
w_php        == <<"p","h","p">>
w_ahk        == <<"a","h","k">>
w_processing == <<"p","r","o","c","e","s","s","i","n","g">>
w_rails      == <<"r","a","i","l","s">>
w_controller == <<"c","o","n","t","r","o","l","l","e","r">>
w_ruby       == <<"r","u","b","y">>
w_js         == <<"j","s">>
w_coffee     == <<"c","o","f","f","e","e">>
w_python     == <<"p","y","t","h","o","n">>
w_clojure    == <<"c","l","o","j","u","r","e">>
w_go         == <<"g","o">>
w_smarty     == <<"s","m","a","r","t","y">>
w_cmake      == <<"c","m","a","k","e">>
w_perl       == <<"p","e","r","l">>
w_cs         == <<"c","s">>
w_haskell    == <<"h","a","s","k","e","l","l">>
w_doc        == <<"_","d","o","c">>

\* the marker of line 74
source_pde == Dot(w_source, w_pde)

(***************************************************************************)
(* What the view answers for a region (lines 68, 71, 73): the word under   *)
(* it, empty when the region covers no character, and the scope name at    *)
(* the word, which Sublime ends with a space.                              *)
(***************************************************************************)
KwAlphabet == {"o", "S", " "}
Words == SeqsUpTo(KwAlphabet, MaxKwLen)

LeadWords == {w_source, w_pde, w_resource}
TagWords == {w_php, w_ahk, w_processing, w_rails, w_controller, w_ruby, w_js,
             w_coffee, w_python, w_clojure, w_go, w_smarty, w_cmake, w_perl,
             w_cs, w_haskell, w_pde}

\* the dotted name made of the words of ws
RECURSIVE Dotted(_)
Dotted(ws) ==
    IF Len(ws) = 1 THEN ws[1] ELSE Dot(ws[1], Dotted(Tail(ws)))

\* one scope selector: up to MaxLead leading components and a trailing one
Selectors == {Dotted(Append(l, t)) : l \in SeqsUpTo(LeadWords, MaxLead), t \in TagWords}

\* the selectors in front of the innermost one, each followed by a space
OuterSelectors == {<<>>, <<"t","e","x","t",".","h","t","m","l"," ">>}

ScopeNames == {o \o s \o <<" ">> : o \in OuterSelectors, s \in Selectors}

NoRegion == [scope |-> <<>>, word |-> <<>>]

\* the regions of the dispatch specification
DispatchRegions == [scope : ScopeNames, word : Words]

\* the regions of the full specification: a few of the above
Regions ==
    {[scope |-> Dot(w_source, w_python) \o <<" ">>, word |-> <<"o">>],
     [scope |-> Dot(w_source, w_python) \o <<" ">>, word |-> <<" ", "o">>],
     [scope |-> Dot(w_source, w_python) \o <<" ">>, word |-> <<>>],
     [scope |-> Dot(w_source, w_haskell) \o <<" ">>, word |-> <<"o">>]}

(***************************************************************************)
(* The calls a handler makes, in order.  A call is a record: open_url and  *)
(* status_message carry a text, CommandThread.start carries the command.   *)
(***************************************************************************)
Call(name, text, command) == [call |-> name, text |-> text, command |-> command]

\* open_url(url), lines 13-14
open_url(url) == <<Call("open_url", url, <<>>)>>

\* sublime.status_message(msg)
status_message(msg) == <<Call("status_message", msg, <<>>)>>

\* self.run_command(command): CommandThread(command, self.panel).start(), lines 133-137
run_command(command) == <<Call("CommandThread.start", <<>>, command)>>

\* re.match(r'\s', keyword): a match at the start of keyword only
re_match_ws(keyword) == keyword # <<>> /\ keyword[1] \in Whitespace

\* a variant that names the whole scope
unsupported_whole_scope(keyword, scope) ==
    status_message(<<"This scope is not supported: ">> \o scope)

\* unsupported(keyword, scope), lines 78-79
unsupported(keyword, scope) ==
    status_message(<<"This scope is not supported: ">> \o rpartition2(scope, "."))

php_doc(keyword, scope) == open_url(<<"http://php.net/">> \o keyword)

ahk_doc(keyword, scope) ==
    open_url(<<"http://www.autohotkey.com/docs/commands/">> \o keyword \o <<".htm">>)

processing_doc(keyword, scope) ==
    open_url(<<"http://www.processing.org/reference/">> \o keyword \o <<"_">> \o <<".html">>)

rails_doc(keyword, scope) == open_url(<<"http://api.rubyonrails.org/?q=">> \o keyword)

controller_doc(keyword, scope) == open_url(<<"http://api.rubyonrails.org/?q=">> \o keyword)

ruby_doc(keyword, scope) == open_url(<<"http://ruby-doc.com/search.html?q=">> \o keyword)

js_doc(keyword, scope) ==
    open_url(<<"https://developer.mozilla.org/en-US/search?q=">> \o keyword)

coffee_doc(keyword, scope) == js_doc(keyword, scope)

python_doc(keyword, scope) ==
    IF ~re_match_ws(keyword)
    THEN run_command(<<<<"python">>, <<"-m">>, <<"pydoc">>, keyword>>)
    ELSE open_url(<<"http://docs.python.org/search.html?q=">> \o keyword)

clojure_doc(keyword, scope) ==
    open_url(<<"http://clojuredocs.org/search?x=0&y=0&q=">> \o keyword)

go_doc(keyword, scope) == open_url(<<"http://golang.org/search?q=">> \o keyword)

smarty_doc(keyword, scope) == open_url(<<"http://www.smarty.net/">> \o keyword)

\* a variant that keeps the keyword's case
cmake_doc_verbatim(keyword, scope) ==
    open_url(<<"http://cmake.org/cmake/help/v2.8.8/cmake.html#command:">> \o keyword)

cmake_doc(keyword, scope) ==
    open_url(<<"http://cmake.org/cmake/help/v2.8.8/cmake.html#command:">> \o lower(keyword))

perl_doc(keyword, scope) == open_url(<<"http://perldoc.perl.org/search.html?q=">> \o keyword)

cs_doc(keyword, scope) ==
    open_url(<<"http://social.msdn.microsoft.com/Search/?query=">> \o keyword)

\* the attributes of a GotoDocumentationCommand whose name ends in _doc
Methods ==
    {[name |-> w \o w_doc, fn |-> w] :
        w \in {w_php, w_ahk, w_processing, w_rails, w_controller, w_ruby, w_js, w_coffee,
               w_python, w_clojure, w_go, w_smarty, w_cmake, w_perl, w_cs}}

\* getattr(self, name, default), line 76: the method's tag, default when there is none
getattr(name, default) ==
    IF \E m \in Methods : m.name = name
    THEN (CHOOSE m \in Methods : m.name = name).fn
    ELSE default

\* the call of the bound method getattr returned, line 76
Invoke(fn, keyword, scope) ==
    CASE fn = w_php        -> php_doc(keyword, scope)
      [] fn = w_ahk        -> ahk_doc(keyword, scope)
      [] fn = w_processing -> processing_doc(keyword, scope)
      [] fn = w_rails      -> rails_doc(keyword, scope)
      [] fn = w_controller -> controller_doc(keyword, scope)
      [] fn = w_ruby       -> ruby_doc(keyword, scope)
      [] fn = w_js         -> js_doc(keyword, scope)
      [] fn = w_coffee     -> coffee_doc(keyword, scope)
      [] fn = w_python     -> python_doc(keyword, scope)
      [] fn = w_clojure    -> clojure_doc(keyword, scope)
      [] fn = w_go         -> go_doc(keyword, scope)
      [] fn = w_smarty     -> smarty_doc(keyword, scope)
      [] fn = w_cmake      -> cmake_doc(keyword, scope)
      [] fn = w_perl       -> perl_doc(keyword, scope)
      [] fn = w_cs         -> cs_doc(keyword, scope)
      [] OTHER             -> unsupported(keyword, scope)

\* the handler name of self.unsupported, and of no call at all (an empty word)
fn_unsupported == <<"unsupported">>
fn_none == <<>>

\* a variant without the override of lines 74-75
extracted_scope_no_override(scope) == rpartition2(scope, ".")

\* lines 72, 74-75: the dispatch tag of a stripped scope name
extracted_scope(scope) ==
    IF Contains(source_pde, scope) THEN w_processing ELSE rpartition2(scope, ".")

\* lines 68-76, the body of the loop of run for one region: what it computed and
\* the calls it made
run_region(r) ==
    LET word == r.word
    IN  IF word # <<>>
        THEN LET scope   == strip(r.scope)
                 tag     == extracted_scope(scope)
                 keyword == word
                 fn      == getattr(tag \o w_doc, fn_unsupported)
             IN  [scope |-> r.scope, word |-> word, tag |-> tag, fn |-> fn,
                  calls |-> Invoke(fn, keyword, scope)]
        ELSE [scope |-> r.scope, word |-> word, tag |-> <<>>, fn |-> fn_none,
              calls |-> <<>>]

(***************************************************************************)
(* The external process and the text it prints.                            *)
(***************************************************************************)
\* proc.communicate()[0] is text (a Python 3 host) or a byte string (a Python 2
\* host); the byte "xFF" is one that no UTF-8 text holds
Text(type, data) == [type |-> type, data |-> data]

\* how subprocess.Popen(...) and proc.communicate() of lines 55-58 can end: the
\* program could not be started, or it ran, printed output and exited with a code
Proc(started, returncode, output) ==
    [started |-> started, returncode |-> returncode, output |-> output]

NotStarted == Proc(FALSE, 0, Text("unicode", <<>>))

ProcOutcomes ==
    {NotStarted,
     Proc(TRUE, 0, Text("unicode", <<"a">>)),
     Proc(TRUE, 0, Text("unicode", <<"b">>)),
     Proc(TRUE, 1, Text("unicode", <<"a">>)),
     Proc(TRUE, 0, Text("bytes", <<"a">>)),
     Proc(TRUE, 0, Text("bytes", <<"xFF">>))}

\* the codecs Python knows by name; "" names none
KnownCodecs == {"utf-8", "latin-1"}

\* data.decode(encoding) of a byte string: the exception raised ("" for none)
\* and the text
decode(data, encoding) ==
    IF encoding \notin KnownCodecs
    THEN [raised |-> "LookupError", value |-> Text("unicode", <<>>)]
    ELSE IF encoding = "utf-8" /\ Positions(data, "xFF") # {}
    THEN [raised |-> "UnicodeDecodeError", value |-> Text("unicode", <<>>)]
    ELSE [raised |-> "", value |-> Text("unicode", data)]

\* getattr(text, 'decode')(encoding): text of a Python 3 host has no decode
text_decode(text, encoding) ==
    IF text.type = "unicode"
    THEN [raised |-> "AttributeError", value |-> Text("unicode", <<>>)]
    ELSE decode(text.data, encoding)

\* _make_text_safeish(text, fallback_encoding), lines 23-36: the exception that
\* leaves it ("" for none) and the text returned
_make_text_safeish(text, fallback_encoding) ==
    LET first == text_decode(text, "utf-8")
    IN  CASE first.raised \in {"UnicodeEncodeError", "UnicodeDecodeError"} ->
                text_decode(text, fallback_encoding)
          [] first.raised = "AttributeError" ->
                [raised |-> "", value |-> Text("unicode", text.data)]
          [] OTHER -> first

(***************************************************************************)
(* The output panel.  A view refuses erase and insert while read-only.     *)
(***************************************************************************)
NoView == [exists |-> FALSE, content |-> <<>>, read_only |-> FALSE, shown |-> FALSE]

\* what on_done is called with: the decoded text, or e.returncode
Result(type, data, code) == [type |-> type, data |-> data, code |-> code]
NoResult == Result("none", <<>>, 0)

set_read_only(v, b) == [v EXCEPT !.read_only = b]

\* view.erase(edit, sublime.Region(a, b))
erase(v, a, b) ==
    IF v.read_only THEN v
    ELSE [v EXCEPT !.content = SubSeq(v.content, 1, a) \o SubSeq(v.content, b + 1, Len(v.content))]

\* view.insert(edit, point, string); a string is all a view takes
insert(v, point, output) ==
    IF v.read_only \/ output.type # "text" THEN v
    ELSE [v EXCEPT !.content = SubSeq(v.content, 1, point) \o output.data
                                \o SubSeq(v.content, point + 1, Len(v.content))]

\* a variant that never erases
GotoDocumentationOutputCommand_run_no_clear(v, output, clear) == insert(v, 0, output)

\* GotoDocumentationOutputCommand.run(edit, output, clear), lines 153-157
GotoDocumentationOutputCommand_run(v, output, clear) ==
    LET erased == IF clear THEN erase(v, 0, Len(v.content)) ELSE v
    IN  insert(erased, 0, output)

\* window.get_output_panel(name): the panel's view, made when there is none
get_output_panel(v) == IF v.exists THEN v ELSE [NoView EXCEPT !.exists = TRUE]

\* window.run_command("show_panel", ...)
show_panel(v) == [v EXCEPT !.shown = TRUE]

\* the threads of the program: the UI thread and the CommandThreads
UiThread == [kind |-> "ui", id |-> 0]
Worker(t) == [kind |-> "CommandThread", id |-> t]

\* a variant that finds no output_view ever
hasattr_never == FALSE

\* hasattr(self, 'output_view'), line 141
hasattr_output_view == output_view # 0

\* the UI mutations of one panel() call
PanelOps(created) ==
    (IF created THEN {"get_output_panel"} ELSE {})
        \cup {"set_read_only", "erase", "insert", "show_panel"}

\* GotoDocumentationCommand.panel(output), lines 139-149, run by thread th
panel(output, th) ==
    LET create == ~hasattr_output_view
        v0 == IF create THEN get_output_panel(window_panel) ELSE window_panel
        v1 == set_read_only(v0, FALSE)
        v2 == GotoDocumentationOutputCommand_run(v1, output, TRUE)
        v3 == set_read_only(v2, TRUE)
    IN  /\ output_view' = IF create THEN get_output_panel_calls + 1 ELSE output_view
        /\ get_output_panel_calls' = get_output_panel_calls + (IF create THEN 1 ELSE 0)
        /\ window_panel' = show_panel(v3)
        /\ ui_log' = ui_log \cup {[op |-> o, thread |-> th] : o \in PanelOps(create)}
        /\ last_output' = output

\* a variant that calls the callback at once, in the calling thread
main_thread_direct(th, callback, output) ==
    /\ panel(output, th)
    /\ UNCHANGED timeouts

\* main_thread(callback, *args), lines 17-20, called by thread th: the callback is
\* queued for the UI thread
main_thread(th, callback, output) ==
    /\ timeouts' = Append(timeouts, [callback |-> callback, output |-> output])
    /\ UNCHANGED <<output_view, get_output_panel_calls, window_panel, ui_log, last_output>>

(***************************************************************************)
(* CommandThread.                                                          *)
(***************************************************************************)
\* CommandThread(command, on_done), lines 40-45, started
CommandThread(command, on_done) ==
    [command |-> command, on_done |-> on_done, working_dir |-> "",
     fallback_encoding |-> "", pc |-> "started", proc |-> NotStarted,
     raised |-> "", posted |-> <<>>]

\* the try block of run, lines 49-60, for one outcome of the process: the
\* exception that leaves it ("" for none) and what it hands to main_thread
run_try(self, proc) ==
    IF ~proc.started
    THEN [raised |-> "OSError", posts |-> <<>>]
    ELSE LET safe == _make_text_safeish(proc.output, self.fallback_encoding)
         IN  IF safe.raised # ""
             THEN [raised |-> safe.raised, posts |-> <<>>]
             ELSE [raised |-> "", posts |-> <<Result("text", safe.value.data, 0)>>]

\* try ... except subprocess.CalledProcessError, lines 48-62
run_except(self, proc) ==
    LET try == run_try(self, proc)
    IN  IF try.raised = "CalledProcessError"
        THEN [raised |-> "", posts |-> <<Result("int", <<>>, proc.returncode)>>]
        ELSE try

\* CommandThread.run of thread t, lines 47-62
CommandThread_run(t) ==
    /\ threads[t].pc = "started"
    /\ \E proc \in ProcOutcomes :
         LET r == run_except(threads[t], proc)
         IN  /\ threads' = [threads EXCEPT ![t].pc = "done", ![t].proc = proc,
                                          ![t].raised = r.raised, ![t].posted = r.posts]
             /\ IF r.posts # <<>>
                THEN main_thread(Worker(t), threads[t].on_done, r.posts[1])
                ELSE UNCHANGED <<timeouts, output_view, get_output_panel_calls,
                                 window_panel, ui_log, last_output>>
    /\ UNCHANGED <<ui_pc, region, last, status, browser>>

(***************************************************************************)
(* The UI thread.                                                          *)
(***************************************************************************)
\* the last text of the calls named name, or old when there is none
RECURSIVE LastText(_, _, _)
LastText(calls, name, old) ==
    IF calls = <<>> THEN old
    ELSE LastText(Tail(calls), name, IF Head(calls).call = name THEN Head(calls).text ELSE old)

\* the threads the calls start
RECURSIVE Started(_)
Started(calls) ==
    IF calls = <<>> THEN <<>>
    ELSE (IF Head(calls).call = "CommandThread.start"
          THEN <<CommandThread(Head(calls).command, "panel")>> ELSE <<>>)
         \o Started(Tail(calls))

\* one pass of the loop of run (lines 67-76) over the region it is at; the loop
\* goes on to region next with ui_pc at pc
RunStep(pc, next) ==
    /\ ui_pc = "run"
    /\ LET done == run_region(region)
       IN  /\ Len(threads) + Len(Started(done.calls)) <= MaxThreads
           /\ last' = done
           /\ status' = LastText(done.calls, "status_message", status)
           /\ browser' = LastText(done.calls, "open_url", browser)
           /\ threads' = threads \o Started(done.calls)
    /\ ui_pc' = pc
    /\ region' = next
    /\ UNCHANGED <<timeouts, output_view, window_panel, get_output_panel_calls,
                   ui_log, last_output>>

\* the command is invoked: run starts at the first region of view.sel()
RunBegin ==
    /\ ui_pc = "idle"
    /\ \E r \in Regions : region' = r
    /\ ui_pc' = "run"
    /\ UNCHANGED <<last, status, browser, threads, timeouts, output_view, window_panel,
                   get_output_panel_calls, ui_log, last_output>>

\* a region is handled and another one follows
RunNext == \E r \in Regions : RunStep("run", r)

\* the last region is handled and run returns
RunEnd == RunStep("idle", NoRegion)

\* the UI thread, idle, runs the callback sublime.set_timeout queued first
Timeout ==
    /\ ui_pc = "idle"
    /\ timeouts # <<>>
    /\ Head(timeouts).callback = "panel"
    /\ panel(Head(timeouts).output, UiThread)
    /\ timeouts' = Tail(timeouts)
    /\ UNCHANGED <<ui_pc, region, last, status, browser, threads>>

NoLast == [scope |-> <<>>, word |-> <<>>, tag |-> <<>>, fn |-> fn_none, calls |-> <<>>]

Init ==
    /\ ui_pc = "idle"
    /\ region = NoRegion
    /\ last = NoLast
    /\ status = <<>>
    /\ browser = <<>>
    /\ threads = <<>>
    /\ timeouts = <<>>
    /\ output_view = 0
    /\ window_panel = NoView
    /\ get_output_panel_calls = 0
    /\ ui_log = {}
    /\ last_output = NoResult

Next ==
    \/ RunBegin
    \/ RunNext
    \/ RunEnd
    \/ \E t \in 1..Len(threads) : CommandThread_run(t)
    \/ Timeout

Spec == Init /\ [][Next]_vars

\* run at one region, the only one of the selection, of the dispatch regions
InitDispatch ==
    /\ ui_pc = "run"
    /\ region \in DispatchRegions
    /\ last = NoLast
    /\ status = <<>>
    /\ browser = <<>>
    /\ threads = <<>>
    /\ timeouts = <<>>
    /\ output_view = 0
    /\ window_panel = NoView
    /\ get_output_panel_calls = 0
    /\ ui_log = {}
    /\ last_output = NoResult

NextDispatch == RunEnd

SpecDispatch == InitDispatch /\ [][NextDispatch]_vars

(***************************************************************************)
(* Properties.  `last` is the region run handled last: its scope name as   *)
(* the view gave it, its word, the dispatch tag, the handler called and    *)
(* the calls the handler made.                                             *)
(***************************************************************************)
HasWhitespace(s) == \E i \in 1..Len(s) : s[i] \in Whitespace

OpenUrlCall(url) == Call("open_url", url, <<>>)

\* x is the trailing dotted component of the scope name raw: it holds no ".",
\* it is what follows the last "." of raw (all of raw when there is none), and
\* the whitespace around raw is not part of it
IsTrailingComponent(x, raw) ==
    \E i \in 0..Len(raw) : \E j \in i..Len(raw) :
        /\ x = SubSeq(raw, i + 1, j)
        /\ Positions(x, ".") = {}
        /\ \A k \in (j + 1)..Len(raw) : raw[k] \in Whitespace
        /\ x # <<>> => x[1] \notin Whitespace /\ x[Len(x)] \notin Whitespace
        /\ IF i = 0 THEN TRUE
           ELSE \/ raw[i] = "."
                \/ raw[i] \in Whitespace /\ \A k \in 1..i : raw[k] \in Whitespace

\* C1: for the python handler, a keyword without any whitespace starts a
\* CommandThread with ["python", "-m", "pydoc", keyword] and opens no URL; a
\* keyword with whitespace at any position opens the docs.python.org search URL
\* and starts no thread; never both.
C1_WhitespaceAnywhereFallsBack ==
    last.fn = w_python =>
        IF HasWhitespace(last.word)
        THEN last.calls =
                <<OpenUrlCall(<<"http://docs.python.org/search.html?q=">> \o last.word)>>
        ELSE last.calls =
                <<Call("CommandThread.start", <<>>,
                       <<<<"python">>, <<"-m">>, <<"pydoc">>, last.word>>)>>

\* C2: every CommandThread whose run has ended, however the process ended,
\* swallowed the error and scheduled exactly one on_done on the UI thread: with
\* the captured text when the process ran and exited with 0, with the integer
\* exit code when it could not be started or exited abnormally.
C2_EveryWorkerDelivers ==
    \A t \in 1..Len(threads) :
        threads[t].pc = "done" =>
            /\ threads[t].raised = ""
            /\ Len(threads[t].posted) = 1
            /\ threads[t].posted[1].type =
                  IF threads[t].proc.started /\ threads[t].proc.returncode = 0
                  THEN "text" ELSE "int"

\* C3: every UI mutation (get_output_panel, set_read_only, erase, insert,
\* show_panel) is made by the UI thread, never by a CommandThread.
C3_UiMutationsOnUiThread == \A m \in ui_log : m.thread = UiThread

\* a CommandThread delivered a result and the panel callback has run
C3_Witness ==
    /\ \E t \in 1..Len(threads) : threads[t].posted # <<>>
    /\ {m.op : m \in ui_log} =
          {"get_output_panel", "set_read_only", "erase", "insert", "show_panel"}

\* C4: a non-empty word whose tag has no <tag>_doc handler sets the status message
\* "This scope is not supported: <trailing dotted component of the scope>" and
\* does nothing else: no URL, no thread, no panel made, changed or shown.
C4_UnsupportedOnlyStatus ==
    last.fn = fn_unsupported =>
        /\ Len(last.calls) = 1
        /\ last.calls[1].call = "status_message"
        /\ \E x \in {SubSeq(last.calls[1].text, 2, Len(last.calls[1].text))} :
              /\ last.calls[1].text = <<"This scope is not supported: ">> \o x
              /\ IsTrailingComponent(x, last.scope)
        /\ status = last.calls[1].text
        /\ browser = <<>>
        /\ threads = <<>>
        /\ timeouts = <<>>
        /\ output_view = 0
        /\ window_panel = NoView
        /\ ui_log = {}

\* the scope source.haskell was found unsupported
C4_Witness ==
    /\ last.fn = fn_unsupported
    /\ last.scope = Dot(w_source, w_haskell) \o <<" ">>
    /\ status = <<"This scope is not supported: ">> \o w_haskell

\* the scope name with its first n dotted components dropped
RECURSIVE DropLeading(_, _)
DropLeading(s, n) ==
    IF n = 0 \/ Positions(s, ".") = {} THEN s
    ELSE DropLeading(SubSeq(s, (CHOOSE m \in Positions(s, ".") :
                                    \A x \in Positions(s, ".") : m <= x) + 1, Len(s)), n - 1)

\* the scope name without the whitespace around it
Trimmed(raw) ==
    LET inside == {i \in 1..Len(raw) : raw[i] \notin Whitespace}
    IN  IF inside = {} THEN <<>>
        ELSE SubSeq(raw, CHOOSE m \in inside : \A x \in inside : m <= x, Max(inside))

\* the tag is not empty and is the tag of the same scope name with any number of
\* its leading dotted components dropped
SameTagWithoutLeading ==
    /\ last.tag # <<>>
    /\ \A n \in 0..Cardinality(Positions(last.scope, ".")) :
          extracted_scope(DropLeading(Trimmed(last.scope), n)) = last.tag

\* C5 as stated: for every scope name of a non-empty word the dispatch tag is
\* not empty and is the same whatever number of leading dotted components
\* precede the trailing one.
C5_TagIgnoresLeadingComponents == last.fn # fn_none => SameTagWithoutLeading

\* C5, amended: the same for every scope name that does not hold the marker
\* "source.pde"; a scope name that holds it has the tag "processing".
C5_TagIgnoresLeadingUnlessMarker ==
    last.fn # fn_none =>
        IF Contains(source_pde, last.scope)
        THEN last.tag = w_processing
        ELSE SameTagWithoutLeading

\* a python tag behind two leading components, without the marker
C5_Witness ==
    /\ last.tag = w_python
    /\ last.scope = Dotted(<<w_pde, w_source, w_python>>) \o <<" ">>

\* C6: a scope name that holds "source.pde" anywhere has the tag "processing"
\* whatever its trailing component, and the processing handler is the one called.
C6_MarkerSelectsProcessing ==
    (last.fn # fn_none /\ Contains(source_pde, last.scope)) =>
        /\ last.tag = w_processing
        /\ last.fn = w_processing
        /\ last.calls =
              <<OpenUrlCall(<<"http://www.processing.org/reference/">> \o last.word
                            \o <<"_">> \o <<".html">>)>>

\* the marker inside resource.pde, in front of the trailing component python
C6_Witness ==
    /\ last.fn = w_processing
    /\ last.scope = Dotted(<<w_resource, w_pde, w_python>>) \o <<" ">>
    /\ browser = <<"http://www.processing.org/reference/", "S", "_", ".html">>

\* the URL templates of the handlers: what precedes and what follows the keyword
UrlPrefix(fn) ==
    CASE fn = w_php        -> <<"http://php.net/">>
      [] fn = w_ahk        -> <<"http://www.autohotkey.com/docs/commands/">>
      [] fn = w_processing -> <<"http://www.processing.org/reference/">>
      [] fn = w_rails      -> <<"http://api.rubyonrails.org/?q=">>
      [] fn = w_controller -> <<"http://api.rubyonrails.org/?q=">>
      [] fn = w_ruby       -> <<"http://ruby-doc.com/search.html?q=">>
      [] fn = w_js         -> <<"https://developer.mozilla.org/en-US/search?q=">>
      [] fn = w_coffee     -> <<"https://developer.mozilla.org/en-US/search?q=">>
      [] fn = w_python     -> <<"http://docs.python.org/search.html?q=">>
      [] fn = w_clojure    -> <<"http://clojuredocs.org/search?x=0&y=0&q=">>
      [] fn = w_go         -> <<"http://golang.org/search?q=">>
      [] fn = w_smarty     -> <<"http://www.smarty.net/">>
      [] fn = w_cmake      -> <<"http://cmake.org/cmake/help/v2.8.8/cmake.html#command:">>
      [] fn = w_perl       -> <<"http://perldoc.perl.org/search.html?q=">>
      [] fn = w_cs         -> <<"http://social.msdn.microsoft.com/Search/?query=">>

UrlSuffix(fn) ==
    CASE fn = w_ahk        -> <<".htm">>
      [] fn = w_processing -> <<"_", ".html">>
      [] OTHER             -> <<>>

SupportedTags == {m.fn : m \in Methods}

\* the handler of the last region went the URL way (python: the fallback)
UrlHandlerCalled ==
    /\ last.fn \in SupportedTags
    /\ last.fn = w_python => last.calls[1].call = "open_url"

\* C7 as stated: every supported tag's handler opens exactly one URL, the tag's
\* template with the keyword inserted character for character.
C7_UrlHoldsKeywordVerbatim ==
    UrlHandlerCalled =>
        last.calls = <<OpenUrlCall(UrlPrefix(last.fn) \o last.word \o UrlSuffix(last.fn))>>

\* the keyword with its upper-case letters replaced by their lower-case ones
LowerCased(w) == [i \in 1..Len(w) |-> IF w[i] = "S" THEN "s" ELSE w[i]]

\* C7, amended: the same, except that the cmake handler inserts the keyword in
\* lower case.
C7_UrlHoldsKeywordLowerForCmake ==
    UrlHandlerCalled =>
        /\ last.calls =
              <<OpenUrlCall(UrlPrefix(last.fn)
                            \o (IF last.fn = w_cmake THEN LowerCased(last.word) ELSE last.word)
                            \o UrlSuffix(last.fn))>>
        /\ browser = last.calls[1].text

\* cmake with an upper-case keyword
C7_Witness ==
    /\ last.fn = w_cmake
    /\ last.word = <<"S">>
    /\ browser = <<"http://cmake.org/cmake/help/v2.8.8/cmake.html#command:", "s">>

\* C8: after any sequence of deliveries the panel holds exactly the text of the
\* result panel() was called with last.
C8_PanelHoldsLatestOutput ==
    last_output # NoResult =>
        /\ last_output.type = "text"
        /\ window_panel.content = last_output.data

\* two threads delivered "a" and "b"; the first thread's "a" reached the UI
\* thread last and is what the panel holds
C8_Witness ==
    /\ Len(threads) = 2
    /\ threads[1].posted = <<Result("text", <<"a">>, 0)>>
    /\ threads[2].posted = <<Result("text", <<"b">>, 0)>>
    /\ timeouts = <<>>
    /\ window_panel.content = <<"a">>

\* C9: get_output_panel is called at most once, on the first delivery, and every
\* later delivery uses that handle; after each panel() call the panel is shown
\* and read-only.
C9_PanelMadeOnce ==
    /\ get_output_panel_calls <= 1
    /\ last_output # NoResult =>
          /\ get_output_panel_calls = 1
          /\ output_view = 1
          /\ window_panel.exists
          /\ window_panel.shown
          /\ window_panel.read_only

\* two results were delivered, one after the other
C9_Witness ==
    /\ Len(threads) = 2
    /\ \A t \in 1..2 : threads[t].posted # <<>>
    /\ timeouts = <<>>
    /\ get_output_panel_calls = 1

\* C10: _make_text_safeish raises for no output of the process and no fallback
\* encoding the thread passes it (the default "" included): the thread of a
\* process that ran delivers a text, and output that was text already is
\* delivered with the same content.
C10_DecodingNeverRaises ==
    \A t \in 1..Len(threads) :
        (threads[t].pc = "done" /\ threads[t].proc.started) =>
            /\ threads[t].raised = ""
            /\ Len(threads[t].posted) = 1
            /\ threads[t].posted[1].type = "text"
            /\ threads[t].proc.output.type = "unicode" =>
                  threads[t].posted[1].data = threads[t].proc.output.data

=============================================================================
